---- MODULE Spec2Model ----
(***************************************************************************)
(* Cortex Browser: the geolocation permission subsystem.                   *)
(*                                                                         *)
(*   geolocation.py  is_secure_geolocation_origin  (the Origin Security    *)
(*                   Classifier, a pure function of a QUrl)                *)
(*   app.py          BrowserWindow._handle_feature_permission_request,     *)
(*                   ._prompt_geolocation_permission,                      *)
(*                   ._is_secure_geolocation_origin and _permission_store  *)
(*                                                                         *)
(* A URL text is a sequence of lexical tokens, e.g.                        *)
(*   <<"blob", ":", "https", ":", "//", "example", ".", "com", "/", "id">> *)
(* QUrl(text) parses such a text into its components the way QUrl does,    *)
(* and toString formats the components back.                               *)
(***************************************************************************)
EXTENDS Integers, Sequences, FiniteSets, TLC

(***************************************************************************)
(* URL texts                                                               *)
(***************************************************************************)
ExampleCom == <<"example", ".", "com">>
Loopback4 == <<"127", ".", "0", ".", "0", ".", "1">>

HttpsExample == <<"https", ":", "//">> \o ExampleCom
HttpsExampleSlash == HttpsExample \o <<"/">>
HttpsExampleUpper == <<"HTTPS", ":", "//", "EXAMPLE", ".", "COM">>
WssSocket == <<"wss", ":", "//">> \o ExampleCom \o <<"/", "socket">>
FileIndex == <<"file", ":", "//", "/", "home", "/", "index">>
HttpLocalhost == <<"http", ":", "//", "localhost">>
HttpLocalhostUpper == <<"http", ":", "//", "LOCALHOST">>
HttpSubLocalhost == <<"http", ":", "//", "sub", ".", "localhost">>
HttpLoopback4 == <<"http", ":", "//">> \o Loopback4
HttpLoopback4Other == <<"http", ":", "//", "127", ".", "4", ".", "5", ".", "6">>
HttpLoopback6 == <<"http", ":", "//", "[", "::", "1", "]", "/">>
HttpMapped6 == <<"http", ":", "//", "[", "::", "ffff", ":">> \o Loopback4 \o <<"]", "/">>
HttpExample == <<"http", ":", "//">> \o ExampleCom
HttpPrivate == <<"http", ":", "//", "192", ".", "168", ".", "1", ".", "10">>
HttpBadOctet == <<"http", ":", "//", "127", ".", "0", ".", "0", ".", "256">>
HttpNoHost == <<"http", ":", "//">>
BlobHttps == <<"blob", ":">> \o HttpsExample \o <<"/", "id">>
BlobHttp == <<"blob", ":">> \o HttpExample \o <<"/", "id">>
FtpExample == <<"ftp", ":", "//">> \o ExampleCom
EmptyText == <<>>

(***************************************************************************)
(* QUrl                                                                    *)
(***************************************************************************)
Punctuation == {":", "//", "/", ".", "[", "]", "::", " "}

\* QUrl keeps scheme and host in lower case.
Lower(tok) ==
    CASE tok = "HTTPS" -> "https"
      [] tok = "HTTP" -> "http"
      [] tok = "BLOB" -> "blob"
      [] tok = "EXAMPLE" -> "example"
      [] tok = "COM" -> "com"
      [] tok = "LOCALHOST" -> "localhost"
      [] OTHER -> tok

LowerSeq(s) == [i \in 1..Len(s) |-> Lower(s[i])]

\* Number of tokens of s before the first occurrence of tok (Len(s) if none).
RECURSIVE PrefixBefore(_, _)
PrefixBefore(s, tok) ==
    IF s = <<>> \/ Head(s) = tok THEN 0 ELSE 1 + PrefixBefore(Tail(s), tok)

\* A host may not hold a space; brackets must enclose an IPv6 literal.
HostSyntaxOk(h) ==
    /\ \A i \in 1..Len(h) : h[i] \notin {" ", ":", "//"} \/ (h[1] = "[" /\ h[i] = ":")
    /\ (\E i \in 1..Len(h) : h[i] \in {"[", "]", "::"})
          => (Len(h) >= 3 /\ h[1] = "[" /\ h[Len(h)] = "]")

\* QUrl(text): the components of a URL text.
QUrl(text) ==
    LET hasScheme == Len(text) >= 2 /\ text[2] = ":" /\ text[1] \notin Punctuation
        rest == IF hasScheme THEN SubSeq(text, 3, Len(text)) ELSE text
        hasAuthority == Len(rest) >= 1 /\ rest[1] = "//"
        afterSlashes == IF hasAuthority THEN Tail(rest) ELSE rest
        hostLen == IF hasAuthority THEN PrefixBefore(afterSlashes, "/") ELSE 0
        rawHost == SubSeq(afterSlashes, 1, hostLen)
    IN  [scheme    |-> IF hasScheme THEN Lower(text[1]) ELSE "",
         authority |-> hasAuthority,
         host      |-> LowerSeq(rawHost),
         path      |-> SubSeq(afterSlashes, hostLen + 1, Len(afterSlashes)),
         valid     |-> text # <<>> /\ HostSyntaxOk(rawHost)]

\* QUrl.scheme(), QUrl.path(), QUrl.isValid()
UrlScheme(url) == url.scheme
UrlPath(url) == url.path
IsValid(url) == url.valid

\* QUrl.host(): the host without the brackets of an IPv6 literal.
UrlHost(url) ==
    LET h == url.host
    IN  IF Len(h) >= 2 /\ h[1] = "[" /\ h[Len(h)] = "]"
        THEN SubSeq(h, 2, Len(h) - 1)
        ELSE h

\* QUrl.isLocalFile()
IsLocalFile(url) == url.scheme = "file"

\* QUrl.toString(): empty for an invalid URL.
UrlToString(url) ==
    IF ~url.valid THEN <<>>
    ELSE (IF url.scheme # "" THEN <<url.scheme, ":">> ELSE <<>>)
         \o (IF url.authority THEN <<"//">> \o url.host ELSE <<>>)
         \o url.path

(***************************************************************************)
(* ipaddress.ip_address                                                    *)
(***************************************************************************)
DecimalTokens == {"0", "1", "4", "5", "6", "10", "127", "168", "192", "256"}

DecimalValue(tok) ==
    CASE tok = "0" -> 0
      [] tok = "1" -> 1
      [] tok = "4" -> 4
      [] tok = "5" -> 5
      [] tok = "6" -> 6
      [] tok = "10" -> 10
      [] tok = "127" -> 127
      [] tok = "168" -> 168
      [] tok = "192" -> 192
      [] tok = "256" -> 256

\* IPv4Address(host) succeeds: four decimal octets, each at most 255.
IsIPv4(h) ==
    /\ Len(h) = 7
    /\ \A i \in {1, 3, 5, 7} : h[i] \in DecimalTokens /\ DecimalValue(h[i]) <= 255
    /\ \A i \in {2, 4, 6} : h[i] = "."

\* IPv6Address(host) succeeds for ::<group> and for ::ffff:<IPv4>.
IsIPv6Short(h) == Len(h) = 2 /\ h[1] = "::" /\ h[2] \in {"1", "4", "ffff"}
IsIPv6Mapped(h) ==
    /\ Len(h) = 10
    /\ SubSeq(h, 1, 3) = <<"::", "ffff", ":">>
    /\ IsIPv4(SubSeq(h, 4, 10))

\* ip_address(host) raises ValueError
IpValueError(h) == ~(IsIPv4(h) \/ IsIPv6Short(h) \/ IsIPv6Mapped(h))

\* ip_address(host).is_loopback.  IPv6Address.is_loopback looks through an
\* IPv4-mapped address only in interpreters that carry that change
\* (mappedLoopback); the others compare the address with ::1 alone.
IsLoopback(h, mappedLoopback) ==
    CASE IsIPv4(h) -> DecimalValue(h[1]) = 127
      [] IsIPv6Short(h) -> h[2] = "1"
      [] IsIPv6Mapped(h) -> mappedLoopback /\ DecimalValue(h[4]) = 127
      [] OTHER -> FALSE

(***************************************************************************)
(* geolocation.py: the Origin Security Classifier                          *)
(***************************************************************************)
EndsWithDotLocalhost(h) ==
    Len(h) >= 2 /\ h[Len(h) - 1] = "." /\ h[Len(h)] = "localhost"

\* The http branch of is_secure_geolocation_origin.
HttpHostIsSecure(url, mappedLoopback) ==
    LET host == LowerSeq(UrlHost(url))
    IN  IF host = <<>> THEN FALSE
        ELSE IF host = <<"localhost">> \/ EndsWithDotLocalhost(host) THEN TRUE
        ELSE IF IpValueError(host) THEN FALSE
        ELSE IsLoopback(host, mappedLoopback)

\* Variant: only https is secure whatever the host.
AlwaysSecure_https_only(url) == Lower(UrlScheme(url)) = "https"

\* if url.isLocalFile() or scheme in {"https", "wss"}
AlwaysSecure(url) ==
    IsLocalFile(url) \/ Lower(UrlScheme(url)) \in {"https", "wss"}

\* Variant: every scheme left over is judged by its host.
UsesHttpRule_any(url) == TRUE

\* if scheme == "http"
UsesHttpRule(url) == Lower(UrlScheme(url)) = "http"

\* Variant: the inner URL is taken from the whole URL, not from its path.
NestedInner_outer(url) == url

\* inner_url = QUrl(url.path())
NestedInner(url) == QUrl(UrlPath(url))

RECURSIVE is_secure_geolocation_origin(_, _)
is_secure_geolocation_origin(url, mappedLoopback) ==
    LET scheme == Lower(UrlScheme(url))
    IN  IF AlwaysSecure(url) THEN TRUE
        ELSE IF scheme \in {"blob", "filesystem"} THEN
            LET inner_url == NestedInner(url)
            IN  IF IsValid(inner_url) /\ inner_url # url
                THEN is_secure_geolocation_origin(inner_url, mappedLoopback)
                ELSE FALSE
        ELSE IF UsesHttpRule(url) THEN HttpHostIsSecure(url, mappedLoopback)
        ELSE FALSE

(***************************************************************************)
(* app.py: BrowserWindow                                                   *)
(***************************************************************************)
VARIABLES
    permission_store,   \* self._permission_store: (origin string, int(feature)) -> policy
    call,               \* what the latest run of the handler did
    prompt_log,         \* history: the latest answer of the prompt, per key
    c_text,             \* the URL text a classification was started with
    c_url,              \* the url of the running call of is_secure_geolocation_origin
    c_depth,            \* how many calls of it are on the stack below the running one
    c_verdict,          \* "pending" while it runs, then "secure", "insecure" or "RecursionError"
    c_interp            \* the interpreter's IPv6Address.is_loopback (see IsLoopback)

handler_vars == <<permission_store, call, prompt_log>>
classifier_vars == <<c_text, c_url, c_depth, c_verdict, c_interp>>
vars == <<permission_store, call, prompt_log,
          c_text, c_url, c_depth, c_verdict, c_interp>>

PermissionGrantedByUser == "PermissionGrantedByUser"
PermissionDeniedByUser == "PermissionDeniedByUser"

Features == {"Geolocation", "Notifications"}

\* int(feature): the enumerator's ordinal
FeatureInt(feature) ==
    CASE feature = "Notifications" -> 0
      [] feature = "Geolocation" -> 1

\* Variant: the early return for other features is missing.
IsGeolocation_always(feature) == TRUE

\* feature != QWebEnginePage.Feature.Geolocation, negated
IsGeolocation(feature) == feature = "Geolocation"

\* The security origins the page may request with: the first MaxOrigins of
\* OriginTexts.
OriginTexts ==
    <<HttpsExample, HttpsExampleSlash, HttpsExampleUpper, HttpLoopback6,
      HttpSubLocalhost, HttpLoopback4Other, HttpMapped6, BlobHttps,
      HttpExample, EmptyText,
      HttpLocalhost, BlobHttp, FtpExample, FileIndex, HttpLoopback4, WssSocket>>

MaxOrigins == 10

Origins ==
    {OriginTexts[i] : i \in 1..(IF MaxOrigins < Len(OriginTexts)
                                THEN MaxOrigins ELSE Len(OriginTexts))}

\* What the user does with the dialog: a button, or dismissing it.
Buttons == {"allow_button", "deny_button", "none"}

BlockedMessage == "Blocked location request: insecure context"

\* Variant: the host of an http origin is not looked at.
BrowserWindow_is_secure_any_http(url) ==
    UrlScheme(url) \in {"https", "wss", "file", "http"}

\* Variant: any origin that names a host is admitted.
BrowserWindow_is_secure_any_host(url) == UrlHost(url) # <<>>

\* Variant: plain ws is admitted beside wss.
BrowserWindow_is_secure_also_ws(url) ==
    \/ UrlScheme(url) \in {"https", "wss", "ws", "file"}
    \/ UrlScheme(url) = "http"
          /\ UrlHost(url) \in {<<"localhost">>, Loopback4, <<"::", "1">>}

\* BrowserWindow._is_secure_geolocation_origin
BrowserWindow_is_secure_geolocation_origin(url) ==
    IF UrlScheme(url) \in {"https", "wss", "file"} THEN TRUE
    ELSE IF UrlScheme(url) = "http"
            /\ UrlHost(url) \in {<<"localhost">>, Loopback4, <<"::", "1">>}
    THEN TRUE
    ELSE FALSE

\* Variant: the key is the (scheme, host) origin, without the path.
PermissionKey_by_origin(url, feature) ==
    <<(<<UrlScheme(url), ":", "//">> \o url.host), FeatureInt(feature)>>

\* key = (security_origin.toString(), int(feature))
PermissionKey(url, feature) == <<UrlToString(url), FeatureInt(feature)>>

\* Variant: the lookup never hits.
StoreHas_never(store, key) == FALSE

\* key in self._permission_store
StoreHas(store, key) == key \in DOMAIN store

\* Variant: the write replaces the whole store.
StoreWrite_replace(store, key, policy) == [k \in {key} |-> policy]

\* self._permission_store[key] = policy
StoreWrite(store, key, policy) ==
    [k \in DOMAIN store \cup {key} |-> IF k = key THEN policy ELSE store[k]]

\* Variant: only an explicit Deny denies.
prompt_dismiss_allows(clicked, checked) == <<clicked # "deny_button", checked>>

\* BrowserWindow._prompt_geolocation_permission: (allow, remember) from the
\* clicked button and the state of the check box.
prompt_geolocation_permission(clicked, checked) ==
    LET allow == clicked = "allow_button"
        remember == checked
    IN  IF clicked \notin {"allow_button", "deny_button"}
        THEN <<FALSE, remember>>
        ELSE <<allow, remember>>

PolicyOf(allow) ==
    IF allow THEN PermissionGrantedByUser ELSE PermissionDeniedByUser

\* Variant: only grants are remembered.
StoreAfterPrompt_grants_only(store, key, allow, remember) ==
    IF remember /\ allow THEN StoreWrite(store, key, PolicyOf(allow)) ELSE store

\* Variant: the answer is stored whatever the check box says.
StoreAfterPrompt_always(store, key, allow, remember) ==
    StoreWrite(store, key, PolicyOf(allow))

\* self._permission_store after the prompt returned (allow, remember)
StoreAfterPrompt(store, key, allow, remember) ==
    IF remember THEN StoreWrite(store, key, PolicyOf(allow)) ELSE store

\* Variant: the call is left out.
SetFeaturePermission_drop(decisions, policy) == decisions

\* self.web_view.page().setFeaturePermission(security_origin, feature, policy):
\* one more decision handed to the page
SetFeaturePermission(decisions, policy) == Append(decisions, policy)

\* Variant: nothing is shown.
ShowMessage_silent(status, message) == status

\* self.status_bar.showMessage(message, 5000)
ShowMessage(status, message) == message

NoCall ==
    [text |-> EmptyText, feature |-> "", decisions |-> <<>>, prompts |-> 0,
     lookups |-> 0, status |-> "", clicked |-> "none", checked |-> FALSE]

\* BrowserWindow.__init__: an empty store, no request handled yet
HandlerInit ==
    /\ permission_store = [k \in {} |-> PermissionDeniedByUser]
    /\ call = NoCall
    /\ prompt_log = [k \in {} |-> <<FALSE, FALSE>>]

\* No classification is running (the handler never calls the classifier).
ClassifierIdle ==
    /\ c_text = EmptyText
    /\ c_url = QUrl(EmptyText)
    /\ c_depth = 0
    /\ c_verdict = "idle"
    /\ c_interp = FALSE

Init == HandlerInit /\ ClassifierIdle

\* One run of the slot _handle_feature_permission_request is one step, and the
\* four actions below are its four paths.  The prompt is inside the step:
\* dialog.exec() returns only when the dialog is closed, and its outcome
\* (clicked, checked) is an input of the step.

\* _handle_feature_permission_request, feature != Geolocation
NonGeolocationRequest(text, feature) ==
    /\ ~IsGeolocation(feature)
    /\ call' = [NoCall EXCEPT !.text = text, !.feature = feature,
                              !.decisions =
                        SetFeaturePermission(<<>>, PermissionDeniedByUser)]
    /\ UNCHANGED <<permission_store, prompt_log>>
    /\ UNCHANGED classifier_vars

\* _handle_feature_permission_request, origin not admitted
InsecureOriginRequest(text, feature) ==
    /\ IsGeolocation(feature)
    /\ ~BrowserWindow_is_secure_geolocation_origin(QUrl(text))
    /\ call' = [NoCall EXCEPT !.text = text, !.feature = feature,
                              !.status = ShowMessage("", BlockedMessage),
                              !.decisions =
                        SetFeaturePermission(<<>>, PermissionDeniedByUser)]
    /\ UNCHANGED <<permission_store, prompt_log>>
    /\ UNCHANGED classifier_vars

\* _handle_feature_permission_request, key in the store
ReplayRequest(text, feature) ==
    LET key == PermissionKey(QUrl(text), feature)
    IN  /\ IsGeolocation(feature)
        /\ BrowserWindow_is_secure_geolocation_origin(QUrl(text))
        /\ StoreHas(permission_store, key)
        /\ call' = [NoCall EXCEPT !.text = text, !.feature = feature,
                                  !.lookups = 1,
                                  !.decisions =
                        SetFeaturePermission(<<>>, permission_store[key])]
        /\ UNCHANGED <<permission_store, prompt_log>>
        /\ UNCHANGED classifier_vars

\* _handle_feature_permission_request, key not in the store: the prompt
PromptRequest(text, feature, clicked, checked) ==
    LET key == PermissionKey(QUrl(text), feature)
        answer == prompt_geolocation_permission(clicked, checked)
        allow == answer[1]
        remember == answer[2]
    IN  /\ IsGeolocation(feature)
        /\ BrowserWindow_is_secure_geolocation_origin(QUrl(text))
        /\ ~StoreHas(permission_store, key)
        /\ permission_store' = StoreAfterPrompt(permission_store, key, allow, remember)
        /\ call' = [NoCall EXCEPT !.text = text, !.feature = feature,
                                  !.lookups = 1, !.prompts = 1,
                                  !.clicked = clicked, !.checked = checked,
                                  !.decisions =
                        SetFeaturePermission(<<>>, PolicyOf(allow))]
        /\ prompt_log' = [k \in DOMAIN prompt_log \cup {key} |->
                            IF k = key THEN <<allow, remember>> ELSE prompt_log[k]]
        /\ UNCHANGED classifier_vars

Next ==
    \E text \in Origins, feature \in Features :
        \/ NonGeolocationRequest(text, feature)
        \/ InsecureOriginRequest(text, feature)
        \/ ReplayRequest(text, feature)
        \/ \E clicked \in Buttons, checked \in BOOLEAN :
              PromptRequest(text, feature, clicked, checked)

Spec == Init /\ [][Next]_vars

(***************************************************************************)
(* geolocation.py: one classification, call by call                        *)
(***************************************************************************)
\* Schemes, hosts and paths the classified URL texts are built from.
InputSchemes == {"https", "HTTPS", "wss", "http", "HTTP", "file", "ftp", "ws", "data"}

InputHosts ==
    {<<>>, ExampleCom, <<"localhost">>, <<"LOCALHOST">>,
     <<"sub", ".", "localhost">>, <<"notlocalhost">>,
     Loopback4, <<"127", ".", "4", ".", "5", ".", "6">>,
     <<"192", ".", "168", ".", "1", ".", "10">>,
     <<"127", ".", "0", ".", "0", ".", "256">>,
     <<"[", "::", "1", "]">>, <<"[", "::", "4", "]">>,
     <<"[", "::", "ffff", ":">> \o Loopback4 \o <<"]">>,
     <<"[", "::", "ffff", ":", "192", ".", "168", ".", "1", ".", "10", "]">>}

InputPaths == {<<>>, <<"/", "id">>}

\* scheme://host/path, //host/path without a scheme, and texts with no
\* authority at all.
BaseTexts ==
    {<<scheme, ":", "//">> \o host \o path :
        scheme \in InputSchemes, host \in InputHosts, path \in InputPaths}
    \cup {<<"//">> \o host \o path : host \in InputHosts, path \in InputPaths}
    \cup {<<"data", ":", "id">>, <<"id">>, EmptyText}

\* Texts QUrl rejects: a space in the host, an unclosed IPv6 bracket.  They
\* are classified only as the inner text of a wrapper.
InvalidTexts ==
    {<<"https", ":", "//", "example", " ", "com">>,
     <<"http", ":", "//", "[", "::", "1">>}

\* The schemes that wrap an inner URL, as they may be written.
WrapperSchemes == {"blob", "filesystem", "BLOB"}

\* The deepest nesting of blob: / filesystem: among the classified texts.
MaxNesting == 2

RECURSIVE NestedTexts(_)
NestedTexts(n) ==
    IF n = 0 THEN BaseTexts \cup InvalidTexts
    ELSE NestedTexts(n - 1)
         \cup {<<w, ":">> \o t : w \in WrapperSchemes, t \in NestedTexts(n - 1)}

\* The interpreter's limit on the depth of the call stack
\* (sys.getrecursionlimit()); every nested call of the classifier takes a
\* frame.
RecursionLimit == 1000

\* A secure URL under as many blob: wrappers as the stack has frames.
DeepText ==
    [i \in 1..(2 * RecursionLimit) |-> IF i % 2 = 1 THEN "blob" ELSE ":"]
        \o HttpsExample

ClassifierInputs == (NestedTexts(MaxNesting) \ InvalidTexts) \cup {DeepText}

\* The call recurses: scheme in {"blob", "filesystem"}, and inner_url is
\* valid and differs from url.
Recurses(url) ==
    /\ ~AlwaysSecure(url)
    /\ Lower(UrlScheme(url)) \in {"blob", "filesystem"}
    /\ IsValid(NestedInner(url))
    /\ NestedInner(url) # url

\* is_secure_geolocation_origin(QUrl(text)) is called.
ClassifyInit ==
    /\ HandlerInit
    /\ c_text \in ClassifierInputs
    /\ c_interp \in BOOLEAN
    /\ c_url = QUrl(c_text)
    /\ c_depth = 0
    /\ c_verdict = "pending"

\* return is_secure_geolocation_origin(inner_url): the next call starts
ClassifyRecurse ==
    /\ c_verdict = "pending"
    /\ Recurses(c_url)
    /\ c_depth + 1 < RecursionLimit
    /\ c_url' = NestedInner(c_url)
    /\ c_depth' = c_depth + 1
    /\ UNCHANGED <<c_text, c_verdict, c_interp>>
    /\ UNCHANGED handler_vars

\* a return without a further call: its value is the verdict of every call
\* on the stack
ClassifyReturn ==
    /\ c_verdict = "pending"
    /\ ~Recurses(c_url)
    /\ c_verdict' = IF is_secure_geolocation_origin(c_url, c_interp)
                    THEN "secure" ELSE "insecure"
    /\ UNCHANGED <<c_text, c_url, c_depth, c_interp>>
    /\ UNCHANGED handler_vars

\* the nested call finds no frame left: RecursionError propagates out of
\* every call on the stack
ClassifyOverflow ==
    /\ c_verdict = "pending"
    /\ Recurses(c_url)
    /\ c_depth + 1 >= RecursionLimit
    /\ c_verdict' = "RecursionError"
    /\ UNCHANGED <<c_text, c_url, c_depth, c_interp>>
    /\ UNCHANGED handler_vars

ClassifyNext == ClassifyRecurse \/ ClassifyReturn \/ ClassifyOverflow

\* A started call runs on until it returns.
SpecClassify ==
    ClassifyInit /\ [][ClassifyNext]_vars /\ WF_vars(ClassifyNext)

(***************************************************************************)
(* Properties                                                              *)
(***************************************************************************)
\* The origin is a secure context for the classifier, whichever interpreter
\* evaluates ip_address(host).is_loopback.
ClassifierSecure(url) ==
    \A mappedLoopback \in BOOLEAN : is_secure_geolocation_origin(url, mappedLoopback)

Handled == call # NoCall
CallUrl == QUrl(call.text)
CallKey == PermissionKey(CallUrl, call.feature)
\* the key of the request handled by the step
NextKey == PermissionKey(QUrl(call'.text), call'.feature)
Prompted == Handled /\ call.prompts = 1
Replayed == Handled /\ call.prompts = 0 /\ call.lookups = 1

\* C1: after any sequence of permission requests, the store holds no entry
\* whose origin string the classifier deems insecure.
C1_StoreHoldsOnlySecureOrigins ==
    \A key \in DOMAIN permission_store : ClassifierSecure(QUrl(key[1]))

C1_Witness ==
    /\ DOMAIN permission_store # {}
    /\ Handled /\ IsGeolocation(call.feature)
    /\ ~ClassifierSecure(CallUrl)

\* C2: a geolocation request from an origin the classifier deems insecure is
\* answered Denied, without a prompt, without a store lookup, and leaves the
\* store as it was.
C2_InsecureOriginDenied ==
    [][(IsGeolocation(call'.feature) /\ ~ClassifierSecure(QUrl(call'.text)))
        => /\ call'.decisions = <<PermissionDeniedByUser>>
           /\ call'.prompts = 0
           /\ call'.lookups = 0
           /\ permission_store' = permission_store]_vars

C2_Witness ==
    /\ Handled /\ IsGeolocation(call.feature)
    /\ ~ClassifierSecure(CallUrl)
    /\ call.decisions = <<PermissionDeniedByUser>>
    /\ call.text = HttpExample
    /\ Cardinality(DOMAIN permission_store) >= 2

\* C3: a request for a capability other than Geolocation is answered Denied
\* for every origin, without a prompt, and leaves the store as it was.
C3_OtherFeatureDenied ==
    [][(call'.feature # "Geolocation")
        => /\ call'.decisions = <<PermissionDeniedByUser>>
           /\ call'.prompts = 0
           /\ call'.lookups = 0
           /\ permission_store' = permission_store]_vars

C3_Witness ==
    /\ Handled /\ call.feature = "Notifications"
    /\ ClassifierSecure(CallUrl)
    /\ StoreHas(permission_store, PermissionKey(CallUrl, "Geolocation"))
    /\ call.decisions = <<PermissionDeniedByUser>>

\* C4: once the prompt for a key was answered with remember, every later
\* request for that key returns the decision recorded then and does not
\* prompt again.
C4_RememberedDecisionReplayed ==
    [][(/\ IsGeolocation(call'.feature)
        /\ NextKey \in DOMAIN prompt_log
        /\ prompt_log[NextKey][2])
        => /\ call'.prompts = 0
           /\ call'.decisions = <<PolicyOf(prompt_log[NextKey][1])>>]_vars

C4_Witness ==
    /\ Replayed
    /\ CallKey \in DOMAIN prompt_log
    /\ prompt_log[CallKey] = <<FALSE, TRUE>>
    /\ call.decisions = <<PermissionDeniedByUser>>

\* C5: a geolocation request from an origin the classifier deems secure, with
\* no stored decision for its key, invokes the prompt exactly once.
C5_SecureOriginPrompts ==
    [][(/\ IsGeolocation(call'.feature)
        /\ ClassifierSecure(QUrl(call'.text))
        /\ ~StoreHas(permission_store, NextKey))
        => call'.prompts = 1]_vars

\* C6: once a key is in the store, no later request changes its value or
\* removes it.
C6_StoreEntriesImmutable ==
    [][\A key \in DOMAIN permission_store :
        /\ key \in DOMAIN permission_store'
        /\ permission_store'[key] = permission_store[key]]_vars

C6_Witness ==
    /\ Prompted /\ call.checked
    /\ \E key \in DOMAIN permission_store :
          /\ key # CallKey
          /\ permission_store[key] # permission_store[CallKey]

\* C7: the store changes only by a request that reached the prompt and got
\* remember: it adds exactly one entry, for that request's key; every other
\* outcome leaves the store as it was.
C7_StoreChangesOnlyByRemember ==
    [][IF call'.prompts = 1 /\ call'.checked
       THEN /\ NextKey \notin DOMAIN permission_store
            /\ DOMAIN permission_store' = DOMAIN permission_store \cup {NextKey}
            /\ \A key \in DOMAIN permission_store :
                  permission_store'[key] = permission_store[key]
       ELSE permission_store' = permission_store]_vars

C7_Witness ==
    /\ Prompted /\ ~call.checked /\ call.clicked = "allow_button"
    /\ DOMAIN permission_store # {}
    /\ CallKey \notin DOMAIN permission_store

\* C8: a prompt answered without remember is not remembered: the next
\* geolocation request for the same key prompts again and its decision
\* follows the new answer.
C8_UnrememberedPromptsAgain ==
    [][(/\ IsGeolocation(call'.feature)
        /\ NextKey \in DOMAIN prompt_log
        /\ ~prompt_log[NextKey][2])
        => /\ call'.prompts = 1
           /\ call'.decisions =
                 <<IF call'.clicked = "allow_button"
                   THEN PermissionGrantedByUser
                   ELSE PermissionDeniedByUser>>]_vars

C8_Witness ==
    /\ Prompted /\ call.clicked = "deny_button"
    /\ prompt_log[CallKey] = <<FALSE, FALSE>>
    /\ call.decisions = <<PermissionDeniedByUser>>

\* C9: a prompt that ends without Allow being clicked gives Denied, whatever
\* the check box; Granted is returned or stored by a prompting request only
\* when Allow was clicked.
C9_NoChoiceIsDenied ==
    [][(call'.prompts = 1 /\ call'.clicked # "allow_button")
        => /\ call'.decisions = <<PermissionDeniedByUser>>
           /\ \A key \in DOMAIN permission_store' \ DOMAIN permission_store :
                 permission_store'[key] = PermissionDeniedByUser]_vars

C9_Witness ==
    /\ Prompted /\ call.clicked = "none" /\ call.checked
    /\ StoreHas(permission_store, CallKey)
    /\ permission_store[CallKey] = PermissionDeniedByUser

\* C10: the store is keyed by the origin string: a geolocation request of an
\* admitted origin whose string no stored entry carries prompts on its own,
\* even when an entry of the same (scheme, host) is stored.
C10_KeyedByOriginString ==
    [][(/\ IsGeolocation(call'.feature)
        /\ BrowserWindow_is_secure_geolocation_origin(QUrl(call'.text))
        /\ \A key \in DOMAIN permission_store :
              key[1] # UrlToString(QUrl(call'.text)))
        => call'.prompts = 1]_vars

C10_Witness ==
    /\ Prompted
    /\ \E key \in DOMAIN permission_store :
          /\ key[1] # UrlToString(CallUrl)
          /\ UrlScheme(QUrl(key[1])) = UrlScheme(CallUrl)
          /\ UrlHost(QUrl(key[1])) = UrlHost(CallUrl)

\* C16: every permission request, whatever its origin, capability, store
\* state and prompt answer, is resolved with exactly one setFeaturePermission
\* call, with value Granted or Denied: no run of the handler ends without a
\* decision or issues two.
C16_ExactlyOneDecision ==
    [][ /\ Len(call'.decisions) = 1
        /\ call'.decisions[1] \in {PermissionGrantedByUser, PermissionDeniedByUser}
        /\ call'.text \in Origins
        /\ call'.feature \in Features ]_vars

\* A request with an empty origin string has been resolved while the store
\* holds a grant and a denial.
C16_Witness ==
    /\ Handled
    /\ call.text = EmptyText
    /\ Len(call.decisions) = 1
    /\ \E k1, k2 \in DOMAIN permission_store :
          permission_store[k1] # permission_store[k2]

Classified == c_verdict \in {"secure", "insecure"}

\* The URL the classification was called with.
TopUrl == QUrl(c_text)

\* A loopback IP literal as the http rule is stated: any 127.0.0.0/8 address,
\* ::1, or an IPv4-mapped IPv6 loopback.
StatedLoopbackLiteral(h) ==
    \/ IsIPv4(h) /\ DecimalValue(h[1]) = 127
    \/ h = <<"::", "1">>
    \/ IsIPv6Mapped(h) /\ DecimalValue(h[4]) = 127

StatedHttpSecure(h) ==
    /\ h # <<>>
    /\ \/ h = <<"localhost">>
       \/ EndsWithDotLocalhost(h)
       \/ StatedLoopbackLiteral(h)

\* C11: for a URL with scheme http the classifier returns true if and only
\* if the host is non-empty and is localhost, ends with .localhost, or is a
\* loopback IP literal (127.0.0.0/8, ::1, or IPv4-mapped such as
\* ::ffff:127.0.0.1); every other host gives false.
C11_HttpLoopbackRule ==
    (Classified /\ UrlScheme(TopUrl) = "http")
        => ((c_verdict = "secure") <=> StatedHttpSecure(UrlHost(TopUrl)))

\* The URL reached by parsing the path of a blob: / filesystem: URL again and
\* again, for as long as the path parses.
RECURSIVE InnermostUrl(_)
InnermostUrl(url) ==
    IF UrlScheme(url) \in {"blob", "filesystem"} /\ IsValid(QUrl(UrlPath(url)))
    THEN InnermostUrl(QUrl(UrlPath(url)))
    ELSE url

\* The rules that look at one URL only: local file, https, wss, and http on
\* a local host.
FlatSecure(url, mappedLoopback) ==
    \/ UrlScheme(url) \in {"file", "https", "wss"}
    \/ UrlScheme(url) = "http" /\ HttpHostIsSecure(url, mappedLoopback)

\* C12: for a URL with scheme blob or filesystem the verdict is the verdict
\* of the inner URL parsed from its path when that URL is valid and differs
\* from the outer one, at any depth of nesting the verdict of the innermost
\* URL; when the inner URL is invalid or the same URL the verdict is
\* insecure.
C12_NestedInheritsInner ==
    (Classified /\ UrlScheme(TopUrl) \in {"blob", "filesystem"})
        => LET inner == QUrl(UrlPath(TopUrl))
           IN  /\ (IsValid(inner) /\ inner # TopUrl)
                    => /\ (c_verdict = "secure")
                            <=> is_secure_geolocation_origin(inner, c_interp)
                       /\ (c_verdict = "secure")
                            <=> FlatSecure(InnermostUrl(TopUrl), c_interp)
               /\ (~IsValid(inner) \/ inner = TopUrl)
                    => c_verdict = "insecure"

\* A blob: over a filesystem: (or blob:) over a secure URL has been
\* classified secure through two nested calls.
C12_Witness ==
    /\ Classified
    /\ UrlScheme(TopUrl) \in {"blob", "filesystem"}
    /\ c_depth = 2
    /\ c_verdict = "secure"

\* C13: classification terminates on every input: the recursion takes
\* finitely many steps (each nested call consumes part of the URL text) and
\* ends in a verdict, and a nested-scheme URL that never reaches a secure
\* innermost URL is classified insecure.
C13_ClassificationTerminates ==
    /\ 2 * c_depth <= Len(c_text)
    /\ (c_verdict # "pending") => Classified
    /\ ( /\ Classified
         /\ UrlScheme(TopUrl) \in {"blob", "filesystem"}
         /\ ~FlatSecure(InnermostUrl(TopUrl), c_interp))
       => c_verdict = "insecure"

\* C14: every URL that denotes a local file, and every URL whose scheme is
\* https or wss, is classified secure regardless of its host and path, and
\* by these rules alone: no later rule is consulted.
C14_SecureSchemesAlwaysSecure ==
    (IsLocalFile(TopUrl) \/ UrlScheme(TopUrl) \in {"https", "wss"})
        => /\ is_secure_geolocation_origin(TopUrl, c_interp)
           /\ c_depth = 0
           /\ Classified => c_verdict = "secure"

\* An https URL on a host the http rule rejects has been classified secure.
C14_Witness ==
    /\ Classified
    /\ UrlScheme(TopUrl) = "https"
    /\ UrlHost(TopUrl) = <<"192", ".", "168", ".", "1", ".", "10">>
    /\ UrlPath(TopUrl) # <<>>
    /\ c_verdict = "secure"

\* C15: a URL that is not a local file and whose scheme is none of https,
\* wss, blob, filesystem or http (ws, ftp, data, no scheme) is classified
\* insecure, whatever its host.
C15_OtherSchemesInsecure ==
    ( /\ ~IsLocalFile(TopUrl)
      /\ UrlScheme(TopUrl) \notin {"https", "wss", "blob", "filesystem", "http"})
        => /\ ~is_secure_geolocation_origin(TopUrl, c_interp)
           /\ c_depth = 0
           /\ Classified => c_verdict = "insecure"

\* ws://localhost, a host the http rule accepts, has been classified
\* insecure.
C15_Witness ==
    /\ Classified
    /\ UrlScheme(TopUrl) = "ws"
    /\ UrlHost(TopUrl) = <<"localhost">>
    /\ c_verdict = "insecure"

\* C19: the admission check of the request handler never admits an origin
\* the classifier rejects: for every URL, admitted by
\* BrowserWindow._is_secure_geolocation_origin implies secure for
\* is_secure_geolocation_origin, as a function and as the verdict the call
\* returns.
C19_HandlerAdmitsOnlySecure ==
    BrowserWindow_is_secure_geolocation_origin(TopUrl)
        => /\ ClassifierSecure(TopUrl)
           /\ Classified => c_verdict = "secure"

\* An http URL on the IPv6 loopback, which the handler admits, has been
\* classified.
C19_Witness ==
    /\ Classified
    /\ BrowserWindow_is_secure_geolocation_origin(TopUrl)
    /\ UrlScheme(TopUrl) = "http"
    /\ UrlHost(TopUrl) = <<"::", "1">>
    /\ c_verdict = "secure"

====
